---- MODULE Spec2Model ----
(***************************************************************************)
(* Model of the mpsc facade (src/src/mpsc/mod.rs): the typed Sender over a *)
(* Framed Single Channel and the Receiver over a Multiplexing              *)
(* Multi-Channel.  The facade's own code is translated from the source;    *)
(* the channel substrate it forwards to (channel::Channel,                 *)
(* multi_channel::Channel, broadcast::Sender, the codec) is modelled from  *)
(* the written design (spec.md sections 3, 4 and 7).                       *)
(***************************************************************************)
EXTENDS Integers, Sequences, FiniteSets, TLC

\* ------------------------------------------------------------ bounds ----
NumPeers == 3       \* remote endpoints that may connect
MaxVal == 1         \* the receiver's value type T is 1..MaxVal
MaxEvents == 5      \* connects, sends, transport ends and broadcasts in one behaviour
MaxWrite == 2       \* bytes the transport may take in one poll

\* Receiver<T, E, const N: usize = 0, RW>: the capacity, 0 = unbounded.
N == 2

Addrs == 1..NumPeers
\* What a sender may be handed: 0 has no encoding (EncodeError), 1..MaxVal
\* round-trips, MaxVal+1 encodes but is not a value of the receiver's type.
Items == 0..(MaxVal + 1)
RecvValues == 1..MaxVal

\* ----------------------------------------------------------- helpers ----
Range(s) == {s[i] : i \in 1..Len(s)}

Min(a, b) == IF a < b THEN a ELSE b

Ok == [st |-> "Ok", err |-> <<>>]
Pending == [st |-> "Pending", err |-> <<>>]
Err(e) == [st |-> "Err", err |-> e]

\* snafu's .context(XSnafu): the facade error wraps its source.
Context(name, r) == IF r.st = "Err" THEN [r EXCEPT !.err = <<name>> \o @] ELSE r

ItemOk(v) == [st |-> "Ok", val |-> v, err |-> <<>>]
ItemErr(e) == [st |-> "Err", val |-> 0, err |-> e]
NoItem == [st |-> "None", val |-> 0, err |-> <<>>]
NoFrame == <<>>

PollSome(it, f, a) == [poll |-> "Some", item |-> it, frame |-> f, addr |-> a]
PollNone == [poll |-> "None", item |-> NoItem, frame |-> NoFrame, addr |-> 0]
PollPending == [poll |-> "Pending", item |-> NoItem, frame |-> NoFrame, addr |-> 0]

\* ------------------------------------------------------------- codec ----
\* One frame is a length byte and the payload; the payload of an integer is
\* its ASCII digit, as the JSON codec writes it.
Encodable(v) == v >= 1
Encode(v) == <<1, 48 + v>>

Decode(f) ==
    IF Len(f) = 2 /\ f[1] = 1 /\ (f[2] - 48) \in RecvValues
    THEN ItemOk(f[2] - 48)
    ELSE ItemErr(<<"Decode">>)

HasFrame(w) == Len(w) >= 1 /\ Len(w) >= 1 + w[1]
FirstFrame(w) == SubSeq(w, 1, 1 + w[1])
DropFrame(w) == SubSeq(w, 2 + w[1], Len(w))

RECURSIVE Frames(_)
Frames(w) == IF HasFrame(w) THEN <<FirstFrame(w)>> \o Frames(DropFrame(w)) ELSE <<>>

RECURSIVE EncodeAll(_)
EncodeAll(vs) == IF vs = <<>> THEN <<>> ELSE Encode(Head(vs)) \o EncodeAll(Tail(vs))

\* ---------------------------------------------- Framed Single Channel ----
\* A channel's write path: the ready flag and the encoded, unflushed bytes.
\* up: the transport is open; n: the bytes it takes during this poll.
NewSender == [ready |-> FALSE, queue |-> <<>>, pc |-> "idle", item |-> 0]

Channel_drain(s, n) ==
    LET k == Min(n, Len(s.queue))
        rest == SubSeq(s.queue, k + 1, Len(s.queue))
    IN  [s |-> [s EXCEPT !.queue = rest], out |-> SubSeq(s.queue, 1, k),
         res |-> IF rest = <<>> THEN Ok ELSE Pending]

Channel_poll_ready(s, up, n) ==
    IF ~up THEN [s |-> s, out |-> <<>>, res |-> Err(<<"Transport">>)]
    ELSE IF n = 0 THEN [s |-> s, out |-> <<>>, res |-> Pending]
    ELSE LET d == Channel_drain(s, n) IN
         IF d.res.st = "Ok"
         THEN [s |-> [d.s EXCEPT !.ready = TRUE], out |-> d.out, res |-> Ok]
         ELSE d

Channel_start_send(s, item) ==
    IF ~s.ready \/ s.queue # <<>>
    THEN [s |-> s, out |-> <<>>, res |-> Err(<<"ProtocolMisuse">>)]
    ELSE IF ~Encodable(item)
    THEN [s |-> s, out |-> <<>>, res |-> Err(<<"Encode">>)]
    ELSE [s |-> [s EXCEPT !.queue = Encode(item), !.ready = FALSE],
          out |-> <<>>, res |-> Ok]

Channel_poll_flush(s, up, n) ==
    IF s.queue = <<>> THEN [s |-> s, out |-> <<>>, res |-> Ok]
    ELSE IF ~up THEN [s |-> s, out |-> <<>>, res |-> Err(<<"Transport">>)]
    ELSE Channel_drain(s, n)

Channel_poll_close(s, up, n) == Channel_poll_flush(s, up, n)

\* ------------------------------------------------------ mpsc::Sender ----
\* Variants of the Sender's methods that get the forwarding wrong.
\* start_send that reports Ok and hands the channel nothing
Sender_start_send_dropped(s, item) ==
    LET r == Channel_start_send(s, item) IN
    IF r.res.st = "Ok" THEN [r EXCEPT !.s = s]
    ELSE [r EXCEPT !.res = Context("SenderError", r.res)]

\* start_send with the channel's error swallowed
Sender_start_send_swallowed(s, item) ==
    [Channel_start_send(s, item) EXCEPT !.res = Ok]

\* send as SinkExt::feed: resolved once the item is submitted, no flush
Sender_send_feed_only(s, up, n) ==
    LET r == Channel_poll_ready(s, up, n)
        t == Channel_start_send(r.s, s.item) IN
    IF r.res.st = "Pending"
    THEN [s |-> r.s, out |-> r.out, res |-> Pending, done |-> <<>>]
    ELSE IF r.res.st = "Err"
    THEN [s |-> [r.s EXCEPT !.pc = "idle", !.item = 0], out |-> r.out,
          res |-> Context("SenderError", r.res), done |-> <<>>]
    ELSE IF t.res.st = "Err"
    THEN [s |-> [t.s EXCEPT !.pc = "idle", !.item = 0], out |-> r.out,
          res |-> Context("SenderError", t.res), done |-> <<"ready">>]
    ELSE [s |-> [t.s EXCEPT !.pc = "idle", !.item = 0], out |-> r.out,
          res |-> Ok, done |-> <<"ready", "submit">>]

\* impl Sink<T> for Sender: each method forwards to the channel and wraps
\* its error in SenderError; ready! passes Pending through.
Sender_start_send(s, item) ==
    LET r == Channel_start_send(s, item)
    IN  [r EXCEPT !.res = Context("SenderError", r.res)]

Sender_poll_ready(s, up, n) ==
    LET r == Channel_poll_ready(s, up, n)
    IN  [r EXCEPT !.res = Context("SenderError", r.res)]

\* poll_flush without ready!: Ok whenever the channel returns no error
Sender_poll_flush_unready(s, up, n) ==
    LET r == Channel_poll_flush(s, up, n)
    IN  [r EXCEPT !.res = IF r.res.st = "Err" THEN Context("SenderError", r.res) ELSE Ok]

Sender_poll_flush(s, up, n) ==
    LET r == Channel_poll_flush(s, up, n)
    IN  [r EXCEPT !.res = Context("SenderError", r.res)]

Sender_poll_close(s, up, n) ==
    LET r == Channel_poll_close(s, up, n)
    IN  [r EXCEPT !.res = Context("SenderError", r.res)]

\* The future is dropped once it has resolved.
Finish(s) == [s EXCEPT !.pc = "idle", !.item = 0]

\* The flush half of the future SinkExt::send returns.  done: the phases
\* this poll has been through; written: the bytes it has put on the wire.
Sender_send_flush(s, up, n, done, written) ==
    LET f == Sender_poll_flush(s, up, n) IN
    IF f.res.st = "Ok"
    THEN [s |-> Finish(f.s), out |-> written \o f.out, res |-> Ok,
          done |-> done \o <<"flush">>]
    ELSE IF f.res.st = "Err"
    THEN [s |-> Finish(f.s), out |-> written \o f.out, res |-> f.res, done |-> done]
    ELSE [s |-> f.s, out |-> written \o f.out, res |-> Pending, done |-> done]

\* Sender::send: one poll of SinkExt::send(self, item): poll_ready, then
\* start_send of the item, then poll_flush; it resolves Ok only when the
\* flush has, and with the first error any of the three returns.
Sender_send(s, up, n) ==
    IF s.pc = "feed"
    THEN LET r == Sender_poll_ready(s, up, n) IN
         IF r.res.st = "Pending"
         THEN [s |-> r.s, out |-> r.out, res |-> Pending, done |-> <<>>]
         ELSE IF r.res.st = "Err"
         THEN [s |-> Finish(r.s), out |-> r.out, res |-> r.res, done |-> <<>>]
         ELSE LET t == Sender_start_send(r.s, s.item) IN
              IF t.res.st = "Err"
              THEN [s |-> Finish(t.s), out |-> r.out, res |-> t.res,
                    done |-> <<"ready">>]
              ELSE Sender_send_flush([t.s EXCEPT !.pc = "flush"], up,
                                     n - Len(r.out), <<"ready", "submit">>, r.out)
    ELSE Sender_send_flush(s, up, n, <<>>, <<>>)

\* ------------------------------------------- Multiplexing Multi-Channel ----
\* The registry is the sequence of live peer addresses in fan-in order.
MC_len(r) == Len(r)
\* limit() of a channel built with capacity n: None when n = 0.
MC_limit_for(n) == IF n = 0 THEN [some |-> FALSE, val |-> 0] ELSE [some |-> TRUE, val |-> n]
MC_limit == MC_limit_for(N)
MC_peer_addrs(r) == r

\* The registry maps an address to one entry: r without the entry of a.
MC_remove(r, a) == SelectSeq(r, LAMBDA b : b # a)

\* accept(new-connection): refused by a half that stopped listening at the
\* split; CapacityExceeded at the limit, else the admission filter's
\* verdict, else the entry is inserted under its address, in the place of
\* an entry the address still had.
\* n: the capacity the channel was built with.
MC_accept_for(n, r, a, filterOk, sp) ==
    IF sp = "tx"
    THEN [reg |-> r, res |-> Err(<<"NotListening">>)]
    ELSE IF n > 0 /\ Len(r) >= n
    THEN [reg |-> r, res |-> Err(<<"CapacityExceeded">>)]
    ELSE IF ~filterOk
    THEN [reg |-> r, res |-> Err(<<"FilterRejected">>)]
    ELSE [reg |-> Append(MC_remove(r, a), a), res |-> Ok]

MC_accept(r, a, filterOk, sp) == MC_accept_for(N, r, a, filterOk, sp)

\* read-raw-frame over the registry: the entries are polled in order; the
\* first one with a whole frame is served and moves to the back; an entry
\* whose transport has ended (error or clean close, no whole frame left) is
\* evicted on the way and the eviction yields no item; with no entry left
\* the source is empty.  w: the bytes in flight per peer; c: the transports.
RECURSIVE MC_scan(_, _, _, _)
MC_scan(todo, kept, w, c) ==
    IF todo = <<>>
    THEN [reg |-> kept, wire |-> w,
          res |-> IF kept = <<>> THEN PollNone ELSE PollPending]
    ELSE LET a == Head(todo) IN
         IF HasFrame(w[a])
         THEN [reg |-> Tail(todo) \o kept \o <<a>>,
               wire |-> [w EXCEPT ![a] = DropFrame(@)],
               res |-> PollSome(NoItem, FirstFrame(w[a]), a)]
         ELSE IF c[a] # "open"
         THEN MC_scan(Tail(todo), kept, w, c)
         ELSE MC_scan(Tail(todo), Append(kept, a), w, c)

MC_poll_frame(r, w, c) == MC_scan(r, <<>>, w, c)

\* read-raw-frame paired with the address of the entry it was read from
MC_recv_frame_with_addr(r, w, c) == MC_poll_frame(r, w, c)

\* next(): the frame decoded; a decode error is the item, the entry stays.
MC_poll_next(r, w, c) ==
    LET x == MC_poll_frame(r, w, c) IN
    IF x.res.poll = "Some"
    THEN [x EXCEPT !.res.item = Decode(x.res.frame)]
    ELSE x

\* the Addressed Item: next() paired with the address of the entry served
MC_recv_with_addr(r, w, c) == MC_poll_next(r, w, c)

\* split(local-is-authority): the write capability of every entry goes to
\* the broadcaster; the flag says which half keeps admitting.
MC_split(readhalf_is_listener) == IF readhalf_is_listener THEN "rx" ELSE "tx"

\* ---------------------------------------------------- mpsc::Receiver ----
\* Variants of the Receiver's methods that get the forwarding wrong.
\* accept with its error swallowed
Receiver_accept_swallowed(r, a, filterOk, sp) ==
    [MC_accept(r, a, filterOk, sp) EXCEPT !.res = Ok]

\* accept with every error reported as the capacity error
Receiver_accept_flattened(r, a, filterOk, sp) ==
    LET x == MC_accept(r, a, filterOk, sp) IN
    IF x.res.st = "Err"
    THEN [x EXCEPT !.res = Err(<<"ReceiverAcceptingError", "CapacityExceeded">>)]
    ELSE x

\* recv with .ok() in the place of .context(): an item-level error ends the stream
Receiver_recv_ends_on_error(r, w, c) ==
    LET x == MC_poll_next(r, w, c) IN
    IF x.res.poll = "Some" /\ x.res.item.st = "Err"
    THEN [x EXCEPT !.res = PollNone]
    ELSE x

\* recv reporting an eviction to the caller as an item
Receiver_recv_reports_eviction(r, w, c) ==
    LET x == MC_poll_next(r, w, c)
        removed == {r[i] : i \in 1..Len(r)} \ {x.reg[i] : i \in 1..Len(x.reg)} IN
    IF x.res.poll = "Some" /\ x.res.item.st = "Err"
    THEN [x EXCEPT !.res.item.err = <<"ReceiverError">> \o @]
    ELSE IF x.res.poll # "Some" /\ removed # {}
    THEN [x EXCEPT !.res = PollSome([st |-> "Err", val |-> 0,
                                     err |-> <<"ReceiverError", "Transport">>],
                                    <<>>, CHOOSE a \in removed : TRUE)]
    ELSE x

\* poll_next reporting an eviction to the caller as an item
Receiver_poll_next_reports_eviction(r, w, c) ==
    LET x == MC_poll_next(r, w, c)
        removed == {r[i] : i \in 1..Len(r)} \ {x.reg[i] : i \in 1..Len(x.reg)} IN
    IF x.res.poll = "Some" /\ x.res.item.st = "Err"
    THEN [x EXCEPT !.res.item.err = <<"ReceiverError">> \o @]
    ELSE IF x.res.poll # "Some" /\ removed # {}
    THEN [x EXCEPT !.res = PollSome([st |-> "Err", val |-> 0,
                                     err |-> <<"ReceiverError", "Closed">>],
                                    <<>>, CHOOSE a \in removed : TRUE)]
    ELSE x

\* poll_next with .unwrap_or_default() in the place of .context(): an
\* error item handed on as a value
Receiver_poll_next_error_as_value(r, w, c) ==
    LET x == MC_poll_next(r, w, c) IN
    IF x.res.poll = "Some" /\ x.res.item.st = "Err"
    THEN [x EXCEPT !.res.item = ItemOk(0)]
    ELSE x

\* poll_next that keeps an error item to itself and reports Pending
Receiver_poll_next_hides_error(r, w, c) ==
    LET x == MC_poll_next(r, w, c) IN
    IF x.res.poll = "Some" /\ x.res.item.st = "Err"
    THEN [x EXCEPT !.res = PollPending]
    ELSE x

\* poll_next without ready!: Pending taken for the end of the stream
Receiver_poll_next_unready(r, w, c) ==
    LET x == MC_poll_next(r, w, c) IN
    IF x.res.poll = "Pending" THEN [x EXCEPT !.res = PollNone]
    ELSE IF x.res.poll = "Some" /\ x.res.item.st = "Err"
    THEN [x EXCEPT !.res.item.err = <<"ReceiverError">> \o @]
    ELSE x

\* limit that unwraps: the capacity as a number, 0 for none
Receiver_limit_unwrapped(n) == [some |-> TRUE, val |-> n]

\* len answering with the capacity where there is one
Receiver_len_of_limit(r) == IF MC_limit.some THEN MC_limit.val ELSE MC_len(r)

Receiver_len(r) == MC_len(r)
\* Receiver::limit of a Receiver<T, E, n, RW>
Receiver_limit_for(n) == MC_limit_for(n)
Receiver_limit == Receiver_limit_for(N)
Receiver_peer_addrs(r) == MC_peer_addrs(r)

\* Receiver::accept: self.0.accept().await.context(ReceiverAcceptingSnafu)
Receiver_accept(r, a, filterOk, sp) ==
    LET x == MC_accept(r, a, filterOk, sp)
    IN  [x EXCEPT !.res = Context("ReceiverAcceptingError", x.res)]

\* Receiver::accept of a Receiver<T, E, 0, RW>
Receiver_accept_unbounded(r, a, filterOk, sp) ==
    LET x == MC_accept_for(0, r, a, filterOk, sp)
    IN  [x EXCEPT !.res = Context("ReceiverAcceptingError", x.res)]

\* .map(|res| res.context(ReceiverSnafu)) on what the channel yields
ReceiverContext(p) ==
    IF p.poll = "Some" /\ p.item.st = "Err"
    THEN [p EXCEPT !.item.err = <<"ReceiverError">> \o @]
    ELSE p

\* Receiver::recv: self.0.next().await.map(|res| res.context(ReceiverSnafu))
Receiver_recv(r, w, c) ==
    LET x == MC_poll_next(r, w, c)
    IN  [x EXCEPT !.res = ReceiverContext(x.res)]

\* recv_with_addr paired with the address of the registry's first entry
Receiver_recv_with_addr_of_first(r, w, c) ==
    LET x == MC_recv_with_addr(r, w, c) IN
    IF x.res.poll = "Some"
    THEN [x EXCEPT !.res = [ReceiverContext(x.res) EXCEPT !.addr = r[1]]]
    ELSE x

\* Receiver::recv_with_addr: .map(|(res, addr)| (res.context(ReceiverSnafu), addr))
Receiver_recv_with_addr(r, w, c) ==
    LET x == MC_recv_with_addr(r, w, c)
    IN  [x EXCEPT !.res = [ReceiverContext(x.res) EXCEPT !.addr = x.res.addr]]

\* Receiver::recv_frame: .map(|res| res.context(ReceiverSnafu))
Receiver_recv_frame(r, w, c) ==
    LET x == MC_poll_frame(r, w, c)
    IN  [x EXCEPT !.res = ReceiverContext(x.res)]

\* Receiver::recv_frame_with_addr: .map(|(res, addr)| (res.context(ReceiverSnafu), addr))
Receiver_recv_frame_with_addr(r, w, c) ==
    LET x == MC_recv_frame_with_addr(r, w, c)
    IN  [x EXCEPT !.res = [ReceiverContext(x.res) EXCEPT !.addr = x.res.addr]]

\* Stream::poll_next for Receiver
Receiver_poll_next(r, w, c) ==
    LET x == MC_poll_next(r, w, c) IN
    IF x.res.poll = "Pending" THEN x
    ELSE IF x.res.poll = "Some" /\ x.res.item.st = "Ok" THEN x
    ELSE IF x.res.poll = "Some" THEN [x EXCEPT !.res = ReceiverContext(x.res)]
    ELSE x

\* split with the flag false: the receive half stops listening
Receiver_split_not_listening == MC_split(FALSE)

\* Receiver::split: self.0.split(readhalf_is_listener) with the flag true
Receiver_split == MC_split(TRUE)

\* ------------------------------------------------- broadcast::Sender ----
\* A submit that gives up at the first entry whose write fails.
Broadcast_start_send_fail_fast(r, q, c, v) ==
    IF ~Encodable(v)
    THEN [reg |-> r, bq |-> q, res |-> Err(<<"Encode">>)]
    ELSE IF \E i \in 1..Len(r) : c[r[i]] # "open"
    THEN [reg |-> r, bq |-> q, res |-> Err(<<"Transport">>)]
    ELSE [reg |-> r, bq |-> [a \in DOMAIN q |->
                               IF \E i \in 1..Len(r) : r[i] = a
                               THEN q[a] \o Encode(v) ELSE q[a]],
          res |-> Ok]

\* submit on the broadcaster: the value is encoded once and queued to every
\* live entry; an entry whose write fails (its transport has ended) is
\* evicted and the call goes on with the rest.
RECURSIVE Broadcast_fan_out(_, _, _, _)
Broadcast_fan_out(todo, q, c, bytes) ==
    IF todo = <<>> THEN [reg |-> <<>>, bq |-> q]
    ELSE LET a == Head(todo) IN
         IF c[a] # "open"
         THEN Broadcast_fan_out(Tail(todo), [q EXCEPT ![a] = <<>>], c, bytes)
         ELSE LET x == Broadcast_fan_out(Tail(todo), [q EXCEPT ![a] = @ \o bytes], c, bytes)
              IN  [x EXCEPT !.reg = <<a>> \o @]

Broadcast_start_send(r, q, c, v) ==
    IF ~Encodable(v)
    THEN [reg |-> r, bq |-> q, res |-> Err(<<"Encode">>)]
    ELSE LET x == Broadcast_fan_out(r, q, c, Encode(v))
         IN  [reg |-> x.reg, bq |-> x.bq, res |-> Ok]

\* flush on the broadcaster: every live entry's queued bytes are driven to
\* its transport; an entry whose flush fails is evicted.
RECURSIVE Broadcast_drive(_, _, _, _, _)
Broadcast_drive(todo, q, o, c, n) ==
    IF todo = <<>> THEN [reg |-> <<>>, bq |-> q, bout |-> o, res |-> Ok]
    ELSE LET a == Head(todo) IN
         IF q[a] # <<>> /\ c[a] # "open"
         THEN Broadcast_drive(Tail(todo), [q EXCEPT ![a] = <<>>], o, c, n)
         ELSE LET k == Min(n, Len(q[a]))
                  x == Broadcast_drive(Tail(todo),
                           [q EXCEPT ![a] = SubSeq(@, k + 1, Len(@))],
                           [o EXCEPT ![a] = @ \o SubSeq(q[a], 1, k)], c, n)
              IN  [x EXCEPT !.reg = <<a>> \o @,
                            !.res = IF k < Len(q[a]) THEN Pending ELSE @]

\* A flush that stops at the first entry whose flush fails.
RECURSIVE Broadcast_poll_flush_stops(_, _, _, _, _)
Broadcast_poll_flush_stops(todo, q, o, c, n) ==
    IF todo = <<>> THEN [reg |-> <<>>, bq |-> q, bout |-> o, res |-> Ok]
    ELSE LET a == Head(todo) IN
         IF q[a] # <<>> /\ c[a] # "open"
         THEN [reg |-> Tail(todo), bq |-> [q EXCEPT ![a] = <<>>], bout |-> o,
               res |-> IF \E b \in Range(Tail(todo)) : q[b] # <<>>
                       THEN Pending ELSE Ok]
         ELSE LET k == Min(n, Len(q[a]))
                  x == Broadcast_poll_flush_stops(Tail(todo),
                           [q EXCEPT ![a] = SubSeq(@, k + 1, Len(@))],
                           [o EXCEPT ![a] = @ \o SubSeq(q[a], 1, k)], c, n)
              IN  [x EXCEPT !.reg = <<a>> \o @,
                            !.res = IF k < Len(q[a]) THEN Pending ELSE @]

\* A flush that, resumed, writes its queue from the start again.
Broadcast_poll_flush_rewinds(r, q, o, c, n) ==
    LET x == Broadcast_drive(r, q, o, c, n) IN
    [x EXCEPT !.bq = [a \in DOMAIN q |-> IF x.bq[a] # <<>> THEN q[a] ELSE x.bq[a]]]

Broadcast_poll_flush(r, q, o, c, n) == Broadcast_drive(r, q, o, c, n)

\* ------------------------------------- the halves, one entry at a time ----
\* The two halves of a split Multi-Channel run on separate tasks and share
\* the registry; each touches it inside one critical section per
\* peer-address key.  A pass (a read, a fan-out) visits the keys it found
\* when it began, looking each one up again when it comes to it.

\* The registry after a read has served entry a: round-robin order.
MC_served(r, a) ==
    LET i == CHOOSE k \in 1..Len(r) : r[k] = a
    IN  SubSeq(r, i + 1, Len(r)) \o SubSeq(r, 1, i - 1) \o <<a>>

\* The read's critical section on key a.  did: what it did with the entry.
MC_visit(a, r, w, c) ==
    IF a \notin Range(r)
    THEN [reg |-> r, wire |-> w, res |-> PollPending, did |-> "skip"]
    ELSE LET x == MC_poll_next(<<a>>, w, c) IN
         IF x.res.poll = "Some"
         THEN [reg |-> MC_served(r, a), wire |-> x.wire, res |-> x.res, did |-> "read"]
         ELSE IF x.reg = <<>>
         THEN [reg |-> MC_remove(r, a), wire |-> w, res |-> PollPending, did |-> "evict"]
         ELSE [reg |-> r, wire |-> w, res |-> PollPending, did |-> "keep"]

\* A fan-out that writes to the entry it found when it began, without
\* looking its key up again.
Broadcast_visit_unchecked(a, r, q, c, bytes) ==
    LET x == Broadcast_fan_out(<<a>>, q, c, bytes) IN
    IF x.reg = <<>>
    THEN [reg |-> MC_remove(r, a), bq |-> x.bq, did |-> "evict"]
    ELSE [reg |-> r, bq |-> x.bq, did |-> "write"]

\* The fan-out's critical section on key a.
Broadcast_visit(a, r, q, c, bytes) ==
    IF a \notin Range(r)
    THEN [reg |-> r, bq |-> q, did |-> "skip"]
    ELSE LET x == Broadcast_fan_out(<<a>>, q, c, bytes) IN
         IF x.reg = <<>>
         THEN [reg |-> MC_remove(r, a), bq |-> x.bq, did |-> "evict"]
         ELSE [reg |-> r, bq |-> x.bq, did |-> "write"]

\* The flush's critical section on key a.
Broadcast_flush_visit(a, r, q, o, c, n) ==
    IF a \notin Range(r)
    THEN [reg |-> r, bq |-> q, bout |-> o, res |-> Ok, did |-> "skip"]
    ELSE LET x == Broadcast_poll_flush(<<a>>, q, o, c, n) IN
         IF x.reg = <<>>
         THEN [reg |-> MC_remove(r, a), bq |-> x.bq, bout |-> x.bout,
               res |-> x.res, did |-> "evict"]
         ELSE [reg |-> r, bq |-> x.bq, bout |-> x.bout, res |-> x.res,
               did |-> "write"]

\* -------------------------------------------------------------- state ----
VARIABLES
    conn,       \* per address: "none", "open", "closed" (clean), "reset"
    backlog,    \* connections established at the listener, not yet accepted
    wire,       \* per address: bytes written by the peer, not yet read
    snd,        \* per address: the peer's mpsc::Sender
    reg,        \* the Receiver's registry of live entries
    split,      \* "no", or which half listens after split: "rx" / "tx"
    bq,         \* per address: bytes the broadcaster has queued
    bout,       \* per address: bytes the broadcaster has delivered
    subm,       \* history, per connection: the values start_send accepted
    sentOk,     \* history, per connection: the values send() reported sent
    got,        \* history, per connection: the items the Receiver yielded
    bsent,      \* history: the values the broadcaster accepted
    join,       \* history, per address: Len(bsent) at admission
    dropped,    \* history: the entries whose peer disconnected after admission
    used,       \* what the behaviour has spent of its bounds
    pass,       \* the read and the fan-out in progress on the split halves
    cut,        \* history, per address: the queue a dropped send() left
    last        \* the last operation: its inputs, pre-state and result

vars == <<conn, backlog, wire, snd, reg, split, bq, bout, subm, sentOk, got,
          bsent, join, dropped, used, pass, cut, last>>

\* No read and no fan-out in progress.
Idle == [rxon |-> FALSE, rx |-> <<>>, txon |-> FALSE, tx |-> <<>>, bytes |-> <<>>]

Env == [op |-> "env", addr |-> 0, res |-> Ok, pre |-> <<>>, arg |-> 0, done |-> <<>>]

Init ==
    /\ conn = [a \in Addrs |-> "none"]
    /\ backlog = {}
    /\ wire = [a \in Addrs |-> <<>>]
    /\ snd = [a \in Addrs |-> NewSender]
    /\ reg = <<>>
    /\ split = "no"
    /\ bq = [a \in Addrs |-> <<>>]
    /\ bout = [a \in Addrs |-> <<>>]
    /\ subm = [a \in Addrs |-> <<>>]
    /\ sentOk = [a \in Addrs |-> <<>>]
    /\ got = [a \in Addrs |-> <<>>]
    /\ bsent = <<>>
    /\ join = [a \in Addrs |-> 0]
    /\ dropped = {}
    /\ used = 0
    /\ pass = Idle
    /\ cut = [a \in Addrs |-> <<>>]
    /\ last = Env

Up(a) == conn[a] = "open"

\* The addresses whose entry is of a connection that has ended while a new
\* connection from the address waits at the listener: conn, wire and snd
\* are then the new connection's, and the entry's transport is the ended
\* one, with nothing left to read.
Stale == Range(reg) \cap backlog
EntryConn == [a \in Addrs |-> IF a \in Stale THEN "closed" ELSE conn[a]]
EntryWire == [a \in Addrs |-> IF a \in Stale THEN <<>> ELSE wire[a]]
HasSender(a) == conn[a] \in {"open", "reset"}

\* The record of an operation: who it was for, what it found (the Sender or
\* the registry before it ran), its argument and what it returned.
Op(name, a, res, pre, arg) ==
    [op |-> name, addr |-> a, res |-> res, pre |-> pre, arg |-> arg, done |-> <<>>]

\* What is kept per connection is dropped with it.
Forget(f, gone, blank) == [a \in Addrs |-> IF a \in gone THEN blank ELSE f[a]]

\* -------------------------------------------------- the remote peers ----
\* A peer connects (send_to(..).await): the transport opens and waits at
\* the listener; the peer's Sender is new.
Connect(a) ==
    /\ conn[a] # "open"
    /\ a \notin backlog
    /\ a \in Range(reg) => wire[a] = <<>>
    /\ used < MaxEvents
    /\ conn' = [conn EXCEPT ![a] = "open"]
    /\ backlog' = backlog \cup {a}
    /\ wire' = [wire EXCEPT ![a] = <<>>]
    /\ snd' = [snd EXCEPT ![a] = NewSender]
    /\ subm' = [subm EXCEPT ![a] = <<>>]
    /\ sentOk' = [sentOk EXCEPT ![a] = <<>>]
    /\ got' = [got EXCEPT ![a] = <<>>]
    /\ used' = used + 1
    /\ last' = Env
    /\ UNCHANGED <<cut, reg, split, pass, bq, bout, join, bsent, dropped>>

\* The transport fails: what was in flight is lost.
Reset(a) ==
    /\ conn[a] = "open"
    /\ used < MaxEvents
    /\ conn' = [conn EXCEPT ![a] = "reset"]
    /\ wire' = [wire EXCEPT ![a] = <<>>]
    /\ used' = used + 1
    /\ last' = Env
    /\ UNCHANGED <<cut, backlog, snd, reg, split, pass, bq, bout, subm, sentOk, got, bsent, join>>
    /\ dropped' = IF a \in Range(reg) THEN dropped \cup {a} ELSE dropped

\* sender.send(item) is called: the future is created, not yet polled.
SendStart(a, item) ==
    /\ HasSender(a)
    /\ snd[a].pc = "idle"
    /\ used < MaxEvents
    /\ snd' = [snd EXCEPT ![a] = [@ EXCEPT !.pc = "feed", !.item = item]]
    /\ used' = used + 1
    /\ last' = Env
    /\ UNCHANGED <<cut, conn, backlog, wire, reg, split, pass, bq, bout, subm, sentOk, got, bsent, join, dropped>>

\* One poll of the pending send().
SendPoll(a, n) ==
    /\ HasSender(a)
    /\ snd[a].pc # "idle"
    /\ LET r == Sender_send(snd[a], Up(a), n) IN
       /\ snd' = [snd EXCEPT ![a] = r.s]
       /\ wire' = [wire EXCEPT ![a] = @ \o r.out]
       /\ subm' = [subm EXCEPT ![a] =
                     IF Len(r.done) >= 2 THEN Append(@, snd[a].item) ELSE @]
       /\ sentOk' = [sentOk EXCEPT ![a] =
                     IF r.res.st = "Ok" THEN Append(@, snd[a].item) ELSE @]
       /\ last' = [Op("send", a, r.res, snd[a], snd[a].item) EXCEPT !.done = r.done]
    /\ UNCHANGED <<cut, conn, backlog, reg, split, pass, bq, bout, got, bsent, join, used, dropped>>

\* The pending send() is dropped at its suspension point: the future and
\* the item it may still hold are gone, the Sender stays as the last poll
\* left it.
Cancel(a) ==
    /\ HasSender(a)
    /\ snd[a].pc # "idle"
    /\ snd' = [snd EXCEPT ![a] = Finish(@)]
    /\ cut' = [cut EXCEPT ![a] = snd[a].queue]
    /\ last' = Op("cancel", a, Pending, snd[a], snd[a].item)
    /\ UNCHANGED <<conn, backlog, wire, reg, split, pass, bq, bout, subm, sentOk,
                   got, bsent, join, used, dropped>>

\* sender.send(item).await run to its end over a transport that takes the
\* frame at once: the future is created and its one poll resolves it.
Send(a, item) ==
    /\ HasSender(a)
    /\ snd[a].pc = "idle"
    /\ used < MaxEvents
    /\ LET s0 == [snd[a] EXCEPT !.pc = "feed", !.item = item]
           r == Sender_send(s0, Up(a), MaxWrite) IN
       /\ r.res.st # "Pending"
       /\ snd' = [snd EXCEPT ![a] = r.s]
       /\ wire' = [wire EXCEPT ![a] = @ \o r.out]
       /\ subm' = [subm EXCEPT ![a] = IF Len(r.done) >= 2 THEN Append(@, item) ELSE @]
       /\ sentOk' = [sentOk EXCEPT ![a] = IF r.res.st = "Ok" THEN Append(@, item) ELSE @]
       /\ last' = Env
    /\ used' = used + 1
    /\ UNCHANGED <<cut, conn, backlog, reg, split, pass, bq, bout, got, bsent, join, dropped>>

\* sender.close().await run to its end: the peer disconnects cleanly.
Close(a) ==
    /\ Up(a)
    /\ snd[a].pc = "idle"
    /\ used < MaxEvents
    /\ LET r == Sender_poll_close(snd[a], Up(a), MaxWrite) IN
       /\ r.res.st = "Ok"
       /\ snd' = [snd EXCEPT ![a] = r.s]
       /\ wire' = [wire EXCEPT ![a] = @ \o r.out]
       /\ conn' = [conn EXCEPT ![a] = "closed"]
       /\ last' = Env
    /\ used' = used + 1
    /\ UNCHANGED <<cut, backlog, reg, split, pass, bq, bout, subm, sentOk, got, bsent, join>>
    /\ dropped' = IF a \in Range(reg) THEN dropped \cup {a} ELSE dropped

\* The Sink methods called directly on the Sender.
PollReady(a, n) ==
    /\ HasSender(a)
    /\ snd[a].pc = "idle"
    /\ LET r == Sender_poll_ready(snd[a], Up(a), n) IN
       /\ snd' = [snd EXCEPT ![a] = r.s]
       /\ wire' = [wire EXCEPT ![a] = @ \o r.out]
       /\ last' = Op("poll_ready", a, r.res, snd[a], n)
    /\ UNCHANGED <<cut, conn, backlog, reg, split, pass, bq, bout, subm, sentOk, got, bsent, join, used, dropped>>

StartSend(a, item) ==
    /\ HasSender(a)
    /\ snd[a].pc = "idle"
    /\ used < MaxEvents
    /\ LET r == Sender_start_send(snd[a], item) IN
       /\ snd' = [snd EXCEPT ![a] = r.s]
       /\ subm' = [subm EXCEPT ![a] = IF r.res.st = "Ok" THEN Append(@, item) ELSE @]
       /\ last' = Op("start_send", a, r.res, snd[a], item)
    /\ used' = used + 1
    /\ UNCHANGED <<cut, conn, backlog, wire, reg, split, pass, bq, bout, sentOk, got, bsent, join, dropped>>

PollFlush(a, n) ==
    /\ HasSender(a)
    /\ snd[a].pc = "idle"
    /\ LET r == Sender_poll_flush(snd[a], Up(a), n) IN
       /\ snd' = [snd EXCEPT ![a] = r.s]
       /\ wire' = [wire EXCEPT ![a] = @ \o r.out]
       /\ last' = Op("poll_flush", a, r.res, snd[a], n)
    /\ UNCHANGED <<cut, conn, backlog, reg, split, pass, bq, bout, subm, sentOk, got, bsent, join, used, dropped>>

\* poll_close: once the flush is through, the write side is shut down.
PollClose(a, n) ==
    /\ HasSender(a)
    /\ snd[a].pc = "idle"
    /\ used < MaxEvents
    /\ LET r == Sender_poll_close(snd[a], Up(a), n)
           shut == r.res.st = "Ok" /\ Up(a) IN
       /\ snd' = [snd EXCEPT ![a] = r.s]
       /\ wire' = [wire EXCEPT ![a] = @ \o r.out]
       /\ conn' = [conn EXCEPT ![a] = IF shut THEN "closed" ELSE @]
       /\ used' = IF shut THEN used + 1 ELSE used
       /\ last' = Op("poll_close", a, r.res, snd[a], n)
    /\ UNCHANGED <<cut, backlog, reg, split, pass, bq, bout, subm, sentOk, got, bsent, join>>
    /\ dropped' = IF a \in Range(reg) /\ conn'[a] = "closed" THEN dropped \cup {a} ELSE dropped

\* ------------------------------------------------------ the Receiver ----
\* receiver.accept().await with connection a next at the listener; a
\* refused connection is dropped, and its peer's Sender with it.
Admit(x, a, filterOk) ==
    /\ a \in backlog
    /\ LET no == IF x.res.st = "Err" THEN {a} ELSE {} IN
       /\ reg' = x.reg
       /\ conn' = Forget(conn, no, "none")
       /\ wire' = Forget(wire, no, <<>>)
       /\ snd' = Forget(snd, no, NewSender)
       /\ subm' = Forget(subm, no, <<>>)
       /\ sentOk' = Forget(sentOk, no, <<>>)
       /\ join' = [join EXCEPT ![a] = IF x.res.st = "Ok" THEN Len(bsent) ELSE @]
       /\ bq' = [bq EXCEPT ![a] = IF x.res.st = "Ok" THEN <<>> ELSE @]
       /\ bout' = [bout EXCEPT ![a] = IF x.res.st = "Ok" THEN <<>> ELSE @]
       /\ dropped' = IF x.res.st = "Ok" THEN dropped \ {a} ELSE dropped
       /\ last' = Op("accept", a, x.res, reg, IF filterOk THEN 1 ELSE 0)
    /\ backlog' = backlog \ {a}
    /\ UNCHANGED <<cut, split, pass, got, bsent, used>>

Accept(a, filterOk) ==
    \E x \in {Receiver_accept(reg, a, filterOk, split)} : Admit(x, a, filterOk)

\* accept on a Receiver built with N = 0
AcceptUnbounded(a, filterOk) ==
    \E x \in {Receiver_accept_unbounded(reg, a, filterOk, split)} : Admit(x, a, filterOk)

\* An evicted entry's channel is dropped: its buffers go with it.
Evicted(r) == Range(reg) \ Range(r)

\* The bytes in flight once a call has left them as w: what waits at the
\* listener is not the registry's to read or drop.
Transports(w, r) ==
    [a \in Addrs |-> IF a \in backlog THEN wire[a]
                     ELSE IF a \in Evicted(r) THEN <<>> ELSE w[a]]

\* What a read has taken from its peer, as the item it is: the item
\* yielded, or for a raw frame the item it would decode to.
Taken(p) == IF p.item = NoItem
            THEN ReceiverContext(PollSome(Decode(p.frame), p.frame, p.addr)).item
            ELSE p.item

Yield(x) == LET g == Forget(got, Evicted(x.reg), <<>>) IN
            IF x.res.poll = "Some"
            THEN [g EXCEPT ![x.res.addr] = Append(@, Taken(x.res))]
            ELSE g

\* The effect of one poll of a read method; kind: 0 the item, 1 the
\* addressed item, 2 the raw frame, 3 the addressed raw frame.
FaninAs(x, kind) ==
    /\ reg' = x.reg
    /\ wire' = Transports(x.wire, x.reg)
    /\ got' = Yield(x)
    /\ bq' = Forget(bq, Evicted(x.reg), <<>>)
    /\ bout' = Forget(bout, Evicted(x.reg), <<>>)
    /\ join' = Forget(join, Evicted(x.reg), 0)
    /\ last' = Op("recv", x.res.addr, x.res, reg, kind)
    /\ UNCHANGED <<cut, conn, backlog, snd, split, pass, subm, sentOk, bsent, used>>
    /\ dropped' = dropped \cap Range(x.reg)

Fanin(x) == FaninAs(x, 0)

\* One poll of receiver.recv().
Recv ==
    \E w \in {EntryWire}, c \in {EntryConn} :
        \E x \in {Receiver_recv(reg, w, c)} : Fanin(x)

\* One poll of receiver.recv_with_addr(), recv_frame(), recv_frame_with_addr().
RecvWithAddr ==
    \E w \in {EntryWire}, c \in {EntryConn} :
        \E x \in {Receiver_recv_with_addr(reg, w, c)} : FaninAs(x, 1)

RecvFrame ==
    \E w \in {EntryWire}, c \in {EntryConn} :
        \E x \in {Receiver_recv_frame(reg, w, c)} : FaninAs(x, 2)

RecvFrameWithAddr ==
    \E w \in {EntryWire}, c \in {EntryConn} :
        \E x \in {Receiver_recv_frame_with_addr(reg, w, c)} : FaninAs(x, 3)

\* One poll of the Receiver as a Stream.
StreamNext ==
    \E w \in {EntryWire}, c \in {EntryConn} :
        \E x \in {Receiver_poll_next(reg, w, c)} : Fanin(x)

Split ==
    /\ split = "no"
    /\ split' = Receiver_split
    /\ last' = Env
    /\ UNCHANGED <<cut, pass, conn, backlog, wire, snd, reg, bq, bout, subm, sentOk, got, bsent, join, used, dropped>>

\* ---------------------------------------------------- the broadcaster ----
Fanout(x) ==
    /\ reg' = x.reg
    /\ bq' = Forget(x.bq, Evicted(x.reg), <<>>)
    /\ wire' = Transports(wire, x.reg)
    /\ got' = Forget(got, Evicted(x.reg), <<>>)
    /\ join' = Forget(join, Evicted(x.reg), 0)
    /\ dropped' = dropped \cap Range(x.reg)

BroadcastSend(v) ==
    /\ split # "no"
    /\ used < MaxEvents
    /\ \E c \in {EntryConn} :
       \E x \in {Broadcast_start_send(reg, bq, c, v)} :
       /\ Fanout(x)
       /\ bout' = Forget(bout, Evicted(x.reg), <<>>)
       /\ bsent' = IF x.res.st = "Ok" THEN Append(bsent, v) ELSE bsent
       /\ last' = Op("bsubmit", 0, x.res, reg, v)
    /\ used' = used + 1
    /\ UNCHANGED <<cut, conn, backlog, snd, split, pass, subm, sentOk>>

BroadcastFlush(n) ==
    /\ split # "no"
    /\ \E c \in {EntryConn} :
       \E x \in {Broadcast_poll_flush(reg, bq, bout, c, n)} :
       /\ Fanout(x)
       /\ bout' = Forget(x.bout, Evicted(x.reg), <<>>)
       /\ last' = Op("bflush", 0, x.res, reg, 0)
    /\ UNCHANGED <<cut, conn, backlog, snd, split, pass, subm, sentOk, bsent, used>>

\* ------------------------------ the two halves on two separate tasks ----
\* What one critical section leaves of the state kept per entry.
Visited(r, w, q, o) ==
    /\ reg' = r
    /\ wire' = Transports(w, r)
    /\ bq' = Forget(q, Evicted(r), <<>>)
    /\ bout' = Forget(o, Evicted(r), <<>>)
    /\ join' = Forget(join, Evicted(r), 0)
    /\ dropped' = dropped \cap Range(r)

\* The receive half begins a read: the keys it will visit.
RxBegin ==
    /\ split # "no"
    /\ ~pass.rxon
    /\ pass' = [pass EXCEPT !.rxon = TRUE, !.rx = reg]
    /\ last' = Op("rxbegin", 0, Ok, reg, 0)
    /\ UNCHANGED <<cut, conn, backlog, wire, snd, reg, split, bq, bout, subm, sentOk,
                   got, bsent, join, dropped, used>>

\* The read visits its next key, or with none left returns.
RxStep ==
    /\ pass.rxon
    /\ IF pass.rx = <<>>
       THEN /\ pass' = [pass EXCEPT !.rxon = FALSE]
            /\ last' = Op("recv", 0, IF reg = <<>> THEN PollNone ELSE PollPending, reg, 0)
            /\ UNCHANGED <<wire, reg, bq, bout, got, join, dropped>>
       ELSE \E w \in {EntryWire}, c \in {EntryConn} :
            \E x \in {MC_visit(Head(pass.rx), reg, w, c)} :
                /\ Visited(x.reg, x.wire, bq, bout)
                /\ got' = Yield([reg |-> x.reg, res |-> ReceiverContext(x.res)])
                /\ pass' = IF x.did = "read"
                           THEN [pass EXCEPT !.rxon = FALSE, !.rx = <<>>]
                           ELSE [pass EXCEPT !.rx = Tail(@)]
                /\ last' = [Op(IF x.did = "read" THEN "recv" ELSE "rxstep",
                               Head(pass.rx), ReceiverContext(x.res), reg, 0)
                            EXCEPT !.done = <<x.did>>]
    /\ UNCHANGED <<cut, conn, backlog, snd, split, subm, sentOk, bsent, used>>

\* The broadcaster begins a submit: the value encoded once, and the keys
\* the fan-out will visit.
TxBegin(v) ==
    /\ split # "no"
    /\ ~pass.txon
    /\ Encodable(v)
    /\ used < MaxEvents
    /\ used' = used + 1
    /\ pass' = [pass EXCEPT !.txon = TRUE, !.tx = reg, !.bytes = Encode(v)]
    /\ bsent' = Append(bsent, v)
    /\ last' = Op("txbegin", 0, Ok, reg, v)
    /\ UNCHANGED <<cut, conn, backlog, wire, snd, reg, split, bq, bout, subm, sentOk,
                   got, join, dropped>>

\* The fan-out visits its next key, or with none left returns.
TxStep ==
    /\ pass.txon
    /\ IF pass.tx = <<>>
       THEN /\ pass' = [pass EXCEPT !.txon = FALSE, !.bytes = <<>>]
            /\ last' = Op("bsubmit", 0, Ok, reg, 0)
            /\ UNCHANGED <<wire, reg, bq, bout, got, join, dropped>>
       ELSE \E c \in {EntryConn} :
            \E x \in {Broadcast_visit(Head(pass.tx), reg, bq, c, pass.bytes)} :
                /\ Visited(x.reg, wire, x.bq, bout)
                /\ got' = Forget(got, Evicted(x.reg), <<>>)
                /\ pass' = [pass EXCEPT !.tx = Tail(@)]
                /\ last' = [Op("txstep", Head(pass.tx), Ok, reg, 0)
                            EXCEPT !.done = <<x.did>>]
    /\ UNCHANGED <<cut, conn, backlog, snd, split, subm, sentOk, bsent, used>>

\* The broadcaster's flush comes to key a.
TxFlush(a, n) ==
    /\ split # "no"
    /\ bq[a] # <<>>
    /\ \E c \in {EntryConn} :
       \E x \in {Broadcast_flush_visit(a, reg, bq, bout, c, n)} :
           /\ Visited(x.reg, wire, x.bq, x.bout)
           /\ got' = Forget(got, Evicted(x.reg), <<>>)
           /\ last' = [Op("txflush", a, x.res, reg, n) EXCEPT !.done = <<x.did>>]
    /\ UNCHANGED <<cut, conn, backlog, snd, split, subm, sentOk, bsent, used, pass>>

\* ------------------------------------------------------ specification ----
\* The Receiver with its peers; each peer's send() and close() run to their
\* end in one step.
Next ==
    \/ \E a \in Addrs : Connect(a)
    \/ \E a \in Addrs : Reset(a)
    \/ \E a \in Addrs, item \in Items : Send(a, item)
    \/ \E a \in Addrs : Close(a)
    \/ \E a \in Addrs, f \in BOOLEAN : Accept(a, f)
    \/ Recv
    \/ StreamNext
    \/ Split
    \/ \E v \in 0..MaxVal : BroadcastSend(v)
    \/ \E n \in 0..MaxWrite : BroadcastFlush(n)

Spec == Init /\ [][Next]_vars

\* One Framed Single Channel, poll by poll: one peer's Sender driven through
\* send() or through the Sink methods, the transport taking 0..MaxWrite
\* bytes a poll, and the Receiver reading the other end.
ChannelNext ==
    \/ \E a \in {1} : Connect(a)
    \/ \E a \in {1} : Reset(a)
    \/ \E a \in {1}, item \in Items : SendStart(a, item)
    \/ \E a \in {1}, n \in 0..MaxWrite : SendPoll(a, n)
    \/ \E a \in {1}, n \in 0..MaxWrite : PollReady(a, n)
    \/ \E a \in {1}, item \in Items : StartSend(a, item)
    \/ \E a \in {1}, n \in 0..MaxWrite : PollFlush(a, n)
    \/ \E a \in {1}, n \in 0..MaxWrite : PollClose(a, n)
    \/ \E a \in {1}, f \in BOOLEAN : Accept(a, f)
    \/ Recv
    \/ StreamNext

ChannelSpec == Init /\ [][ChannelNext]_vars

\* The single channel with its pending send() dropped at will.
CancelNext ==
    \/ \E a \in {1} : Connect(a)
    \/ \E a \in {1} : Reset(a)
    \/ \E a \in {1}, item \in Items : SendStart(a, item)
    \/ \E a \in {1}, n \in 0..MaxWrite : SendPoll(a, n)
    \/ \E a \in {1}, n \in 0..MaxWrite : PollReady(a, n)
    \/ \E a \in {1}, item \in Items : StartSend(a, item)
    \/ \E a \in {1}, n \in 0..MaxWrite : PollFlush(a, n)
    \/ \E a \in {1}, n \in 0..MaxWrite : PollClose(a, n)
    \/ \E a \in {1}, f \in BOOLEAN : Accept(a, f)
    \/ Recv
    \/ StreamNext
    \/ \E a \in {1} : Cancel(a)

CancelSpec == Init /\ [][CancelNext]_vars

\* The fan-in alone, over all peers but one: peers connect, send, fail and
\* close while the Receiver admits and reads.  Its consumer keeps calling
\* recv(): a poll that would change something is not put off for ever.
FaninPeers == 1..(NumPeers - 1)

FaninNext ==
    \/ \E a \in FaninPeers : Connect(a)
    \/ \E a \in FaninPeers : Reset(a)
    \/ \E a \in FaninPeers, item \in Items : Send(a, item)
    \/ \E a \in FaninPeers : Close(a)
    \/ \E a \in FaninPeers, f \in BOOLEAN : Accept(a, f)
    \/ Recv
    \/ StreamNext

FaninSpec == Init /\ [][FaninNext]_vars /\ WF_vars(Recv)

\* The Receiver built with N = 0 and its peers.
UnboundedNext ==
    \/ \E a \in Addrs : Connect(a)
    \/ \E a \in Addrs : Reset(a)
    \/ \E a \in Addrs, item \in Items : Send(a, item)
    \/ \E a \in Addrs : Close(a)
    \/ \E a \in Addrs, f \in BOOLEAN : AcceptUnbounded(a, f)
    \/ Recv
    \/ StreamNext

UnboundedSpec == Init /\ [][UnboundedNext]_vars

\* The Receiver read through its addressed and raw-frame methods.
AddressedNext ==
    \/ \E a \in Addrs : Connect(a)
    \/ \E a \in Addrs : Reset(a)
    \/ \E a \in Addrs, item \in Items : Send(a, item)
    \/ \E a \in Addrs : Close(a)
    \/ \E a \in Addrs, f \in BOOLEAN : Accept(a, f)
    \/ RecvWithAddr
    \/ RecvFrame
    \/ RecvFrameWithAddr

AddressedSpec == Init /\ [][AddressedNext]_vars

\* The halves of a split Receiver driven concurrently, entry by entry.
HalvesNext ==
    \/ \E a \in FaninPeers : Connect(a)
    \/ \E a \in FaninPeers : Reset(a)
    \/ \E a \in FaninPeers, item \in Items : Send(a, item)
    \/ \E a \in FaninPeers : Close(a)
    \/ \E a \in FaninPeers, f \in BOOLEAN : Accept(a, f)
    \/ Split
    \/ RxBegin
    \/ RxStep
    \/ \E v \in Items : TxBegin(v)
    \/ TxStep
    \/ \E a \in FaninPeers, n \in 1..MaxWrite : TxFlush(a, n)

HalvesSpec == Init /\ [][HalvesNext]_vars

\* The broadcaster and its peers, the flush polled until it completes.
BroadcastNext ==
    \/ \E a \in FaninPeers : Connect(a)
    \/ \E a \in FaninPeers : Reset(a)
    \/ \E a \in FaninPeers : Close(a)
    \/ \E a \in FaninPeers, f \in BOOLEAN : Accept(a, f)
    \/ Split
    \/ \E v \in Items : BroadcastSend(v)
    \/ \E n \in 1..MaxWrite : BroadcastFlush(n)

BroadcastSpec ==
    Init /\ [][BroadcastNext]_vars /\ WF_vars(\E n \in 1..MaxWrite : BroadcastFlush(n))

\* ------------------------------------------------------------- claims ----
Live == Range(reg)
Ended(a) == conn[a] \in {"closed", "reset"}
Gone == Range(last.pre) \ Range(reg)
\* The transport of the entry b had, or has, in the registry has ended: the
\* connection has, or a newer one from its address waits at the listener.
EntryEnded(b) == conn[b] # "open" \/ b \in backlog
HasErr(res, name) == res.st = "Err" /\ name \in Range(res.err)

\* What the receive side is to yield for a submitted value.
Expect(v) == IF v \in RecvValues THEN ItemOk(v)
             ELSE ItemErr(<<"ReceiverError", "Decode">>)

RECURSIVE ExpectAll(_)
ExpectAll(vs) == IF vs = <<>> THEN <<>> ELSE <<Expect(Head(vs))>> \o ExpectAll(Tail(vs))

RECURSIVE DecodeAll(_)
DecodeAll(fs) ==
    IF fs = <<>> THEN <<>>
    ELSE <<ReceiverContext(PollSome(Decode(Head(fs)), Head(fs), 0)).item>> \o DecodeAll(Tail(fs))

\* The items of connection a: yielded already, and still to come from the
\* bytes in flight and the bytes its Sender has queued.
Observed(a) == got[a] \o DecodeAll(Frames(wire[a] \o snd[a].queue))

\* C1: with capacity N > 0 the registry never holds more than N entries, and
\* an accept that finds it holding N fails with CapacityExceeded and leaves
\* len() and peer_addrs() as they were.
C1_CapacityHeld ==
    /\ N > 0 => Receiver_len(reg) <= N
    /\ (last.op = "accept" /\ Len(last.pre) = N)
         => /\ HasErr(last.res, "CapacityExceeded")
            /\ Receiver_peer_addrs(reg) = Receiver_peer_addrs(last.pre)
            /\ Receiver_len(reg) = N

C1_Witness ==
    /\ last.op = "accept"
    /\ Len(last.pre) = N
    /\ last.res.st = "Err"
    /\ Len(reg) = N

\* C2 as stated: at capacity every accept fails with CapacityExceeded while
\* all N peers are connected, and as soon as one of them has disconnected
\* the next accept does not fail with CapacityExceeded.
C2_AsStated ==
    (last.op = "accept" /\ Len(last.pre) = N)
      => IF dropped # {}
         THEN ~HasErr(last.res, "CapacityExceeded")
         ELSE HasErr(last.res, "CapacityExceeded")

\* C2 amended: an accept fails with CapacityExceeded exactly while the
\* registry holds N entries, a disconnected peer's entry counting until a
\* read has evicted it; below N it admits whatever the filter lets through.
C2_FullUntilEvicted ==
    last.op = "accept"
      => /\ HasErr(last.res, "CapacityExceeded") <=> Len(last.pre) >= N
         /\ (Len(last.pre) < N /\ last.arg = 1)
              => /\ last.res.st = "Ok"
                 /\ reg = Append(MC_remove(last.pre, last.addr), last.addr)

C2_Witness ==
    /\ last.op = "accept"
    /\ last.res.st = "Ok"
    /\ Len(reg) = N
    /\ \E a \in Addrs : Ended(a) /\ a \notin Live /\ a \notin backlog
    /\ \A a \in Live : ~Ended(a)

\* The connections the receive side holds or is about to be handed.
Held == Live \cup backlog

\* C3: on a single channel with no transport failure, the items the receive
\* side has yielded, followed by those still in flight or queued, are the
\* submitted values in submission order, none lost, none twice.
C3_InOrder ==
    \A a \in Held : conn[a] \in {"open", "closed"} => Observed(a) = ExpectAll(subm[a])

C3_Witness ==
    \E a \in Live :
        /\ conn[a] = "open"
        /\ Len(got[a]) >= 2
        /\ got[a] = ExpectAll(subm[a])
        /\ got[a][1] # got[a][2]

\* C4: start_send without a ready signal, or with a value still unflushed,
\* fails with the misuse error and leaves the Sender as it found it; the
\* write queue never holds more than what is left of one frame.
C4_MisuseRejected ==
    /\ (last.op = "start_send" /\ (~last.pre.ready \/ last.pre.queue # <<>>))
         => /\ HasErr(last.res, "ProtocolMisuse")
            /\ snd[last.addr] = last.pre
    /\ \A a \in Addrs : Len(Frames(snd[a].queue)) <= 1
    /\ \A a \in Addrs : snd[a].queue # <<>> =>
         \E v \in Items : \E k \in 1..Len(Encode(v)) :
             snd[a].queue = SubSeq(Encode(v), k, Len(Encode(v)))

C4_Witness ==
    /\ last.op = "start_send"
    /\ last.pre.queue # <<>>
    /\ HasErr(last.res, "ProtocolMisuse")
    /\ snd[last.addr].queue = last.pre.queue

\* C5: a poll of send() goes through ready, submit, flush in that order; it
\* returns Ok only with the flush done and nothing left queued, and then the
\* value counts as sent; on an error of any phase it returns that error
\* wrapped, and the value is not counted as sent.
SendPhases == <<"ready", "submit", "flush">>

C5_SendDrivesPhases ==
    /\ last.op = "send" =>
         LET a == last.addr
             before == IF last.pre.pc = "feed" THEN <<>> ELSE <<"ready", "submit">>
             all == before \o last.done
         IN  /\ all = SubSeq(SendPhases, 1, Len(all))
             /\ last.res.st = "Ok" <=> all = SendPhases
             /\ last.res.st = "Ok" =>
                  /\ snd[a].queue = <<>> /\ snd[a].pc = "idle"
                  /\ sentOk[a] # <<>> /\ sentOk[a][Len(sentOk[a])] = last.arg
             /\ last.res.st = "Err" =>
                  /\ Head(last.res.err) = "SenderError"
                  /\ snd[a].pc = "idle"
             /\ last.res.st = "Pending" => snd[a].pc \in {"feed", "flush"}
    /\ \A a \in Held : conn[a] \in {"open", "closed"} =>
         /\ Len(sentOk[a]) <= Len(got[a]) + Len(Frames(wire[a]))
         /\ Len(sentOk[a]) <= Len(subm[a])

C5_Witness ==
    /\ last.op = "send"
    /\ last.res.st = "Ok"
    /\ last.pre.pc = "flush"
    /\ last.pre.queue # <<>>
    /\ sentOk[last.addr] = <<last.arg>>

\* C6: a decode error is an item-level Err: the poll that yields it leaves
\* the peer that sent the frame in the registry, removes none but entries
\* whose transport has ended, and the frames that peer sent after it are
\* still what the Receiver goes on to yield, in order.
C6_DecodeErrorKeepsPeer ==
    /\ (last.op = "recv" /\ last.res.poll = "Some" /\ last.res.item.st = "Err")
         => /\ last.res.item.err = <<"ReceiverError", "Decode">>
            /\ last.res.addr \in Range(Receiver_peer_addrs(reg))
            /\ \A b \in Gone : EntryEnded(b)
            /\ Gone = {} => /\ Receiver_len(reg) = Len(last.pre)
                            /\ Range(Receiver_peer_addrs(reg)) = Range(last.pre)
    /\ \A a \in Live :
         (conn[a] # "reset" /\ \E i \in 1..Len(got[a]) : got[a][i].st = "Err")
           => Observed(a) = ExpectAll(subm[a])

C6_Witness ==
    \E a \in Live :
        /\ Len(got[a]) = 2
        /\ got[a][1].st = "Err"
        /\ got[a][2] = ItemOk(1)
        /\ last.op = "recv" /\ last.addr = a

\* C7: a poll of the Receiver that evicts a peer yields nothing on that
\* peer's account: what it yields is the decoded value or the decode error
\* of a frame of a peer that stays in the registry.
C7_EvictionNotAnItem ==
    last.op = "recv" =>
        /\ \A b \in Gone : EntryEnded(b)
        /\ last.res.poll = "Some" =>
             /\ last.res.addr \in Live
             /\ last.res.addr \notin Gone
             /\ last.res.frame # NoFrame
             /\ last.res.item = DecodeAll(<<last.res.frame>>)[1]
             /\ \/ last.res.item.st = "Ok" /\ last.res.item.val \in RecvValues
                \/ last.res.item.err = <<"ReceiverError", "Decode">>
        /\ last.res.poll # "Some" => last.res.item = NoItem

C7_Witness ==
    /\ last.op = "recv"
    /\ Gone # {}
    /\ last.res.poll = "Some"
    /\ last.res.item.st = "Ok"

C9_Safe ==
    /\ last.op = "recv" =>
         /\ last.res.poll = "None"
              => reg = <<>> /\ \A b \in Range(last.pre) : EntryEnded(b)
         /\ last.res.poll = "Pending" => \A b \in Live : ~HasFrame(EntryWire[b])
         /\ \A b \in Range(last.pre) : ~EntryEnded(b) => b \in Live
    /\ (\E d \in Addrs : Ended(d))
         => \A a \in Live : conn[a] = "open" => Observed(a) = ExpectAll(subm[a])

\* C9: one dead peer neither corrupts nor stalls the others: C9_Safe holds
\* throughout, and with the consumer polling on, a frame waiting at an entry
\* whose transport stays open is yielded.
C9_Isolated ==
    /\ []C9_Safe
    /\ \A a \in FaninPeers :
         (a \in Live /\ a \notin backlog /\ conn[a] = "open" /\ HasFrame(wire[a]))
           ~> \/ conn[a] # "open"
              \/ last.op = "recv" /\ last.res.poll = "Some" /\ last.res.addr = a

C9_Witness ==
    /\ last.op = "recv"
    /\ last.res.poll = "Some"
    /\ \E d \in Addrs : conn[d] = "reset" /\ d \notin Live /\ d \notin backlog
    /\ \E a \in Live : a = last.res.addr /\ conn[a] = "open" /\ Len(got[a]) = 2

\* The entries of the registry the broadcaster cannot write to.
Failing == {a \in Range(last.pre) : EntryEnded(a)}

\* C10: a broadcast submit that finds exactly one of its k entries failing
\* returns Ok, evicts that entry and no other, so that len() is k - 1, and
\* queues the value's frame to each of the others; every entry has been
\* handed the frames of all values submitted since its admission.
C10_PartialFailure ==
    /\ (last.op = "bsubmit" /\ Encodable(last.arg) /\ Cardinality(Failing) = 1)
         => /\ last.res.st = "Ok"
            /\ Range(Receiver_peer_addrs(reg)) = Range(last.pre) \ Failing
            /\ Receiver_len(reg) = Len(last.pre) - 1
            /\ \A b \in Live :
                 LET h == bout[b] \o bq[b] IN
                 /\ Len(h) >= 2
                 /\ SubSeq(h, Len(h) - 1, Len(h)) = Encode(last.arg)
    /\ \A b \in Live :
         bout[b] \o bq[b] = EncodeAll(SubSeq(bsent, join[b] + 1, Len(bsent)))

C10_Witness ==
    /\ last.op = "bsubmit"
    /\ Len(last.pre) = 2
    /\ Cardinality(Failing) = 1
    /\ last.res.st = "Ok"
    /\ Receiver_len(reg) = 1
    /\ \A b \in Live : bq[b] = Encode(last.arg)

\* The entries of the registry with a whole frame waiting.
ReadyPeers == {a \in Range(reg) : HasFrame(EntryWire[a])}

\* A poll of the Receiver that finds a frame ready yields an item of the
\* first ready entry in the registry's order and moves that entry behind
\* all others, so that it is not served again before an entry that waits; a
\* poll that finds none yields no item.
C11_Poll ==
    last'.op = "recv" =>
        IF ReadyPeers # {}
        THEN /\ last'.res.poll = "Some"
             /\ last'.res.addr \in ReadyPeers
             /\ \A i, j \in 1..Len(reg) :
                  (i < j /\ reg[j] = last'.res.addr) => reg[i] \notin ReadyPeers
             /\ reg' # <<>> /\ reg'[Len(reg')] = last'.res.addr
             /\ \A b \in ReadyPeers : b \in Range(reg')
        ELSE last'.res.poll # "Some"

\* C11: every poll made while some live peer has a frame ready returns an
\* item of a ready peer, never Pending, and serves the peers in turn
\* (C11_Poll); with the consumer polling on, a frame that has arrived from a
\* live peer is yielded unless that peer's transport fails first.
C11_Fairness ==
    /\ [][C11_Poll]_vars
    /\ \A a \in FaninPeers :
         (a \in Live /\ a \notin backlog /\ HasFrame(wire[a]))
           ~> \/ conn[a] = "reset"
              \/ last.op = "recv" /\ last.res.poll = "Some" /\ last.res.addr = a

C11_Witness ==
    /\ last.op = "recv"
    /\ last.res.poll = "Some"
    /\ \E a \in Live :
         /\ a # last.res.addr
         /\ got[a] # <<>>
         /\ HasFrame(wire[a])
         /\ got[last.res.addr] # <<>>

\* C12: an address has at most one entry: peer_addrs() holds no address
\* twice and len() is the number of addresses in it.  A connection from an
\* address whose previous entry is not yet evicted is admitted in the place
\* of that entry, as one step: the registry is no longer, the entry is the
\* new connection's, and nothing of the previous one is left in it.
C12_OneEntryPerAddress ==
    /\ Receiver_len(reg) = Cardinality(Range(Receiver_peer_addrs(reg)))
    /\ \A i, j \in 1..Len(reg) : reg[i] = reg[j] => i = j
    /\ (last.op = "accept" /\ last.addr \in Range(last.pre) /\ last.res.st = "Ok")
         => /\ Receiver_len(reg) = Len(last.pre)
            /\ Range(Receiver_peer_addrs(reg)) = Range(last.pre)
            /\ last.addr \notin Stale
            /\ got[last.addr] = <<>> /\ bq[last.addr] = <<>> /\ bout[last.addr] = <<>>
            /\ join[last.addr] = Len(bsent)
    /\ (last.op = "recv" /\ last.res.poll = "Some") => last.res.addr \notin Stale

C12_Witness ==
    /\ last.op = "accept"
    /\ last.addr \in Range(last.pre)
    /\ last.res.st = "Ok"
    /\ conn[last.addr] = "open"
    /\ Receiver_len(reg) = Len(last.pre)

\* What the broadcaster has been handed for entry b since its admission.
Handed(b) == EncodeAll(SubSeq(bsent, join[b] + 1, Len(bsent)))

\* The two halves keep to their own direction: a step of the receive half
\* leaves what the broadcaster has queued and written to the entries that
\* stay, a step of the broadcaster leaves what they have sent and what has
\* been read of it; there is a broadcaster only once the Receiver is split,
\* and a split is not undone.
C13_Halves ==
    /\ last'.op = "recv"
         => \A b \in Range(reg') : bq'[b] = bq[b] /\ bout'[b] = bout[b]
    /\ last'.op \in {"bsubmit", "bflush"}
         => /\ split # "no"
            /\ \A b \in Range(reg') : wire'[b] = wire[b] /\ got'[b] = got[b]
    /\ split # "no" => split' = split

C14_ListenerAfterSplit ==
    /\ split \in {"no", "rx"}
    /\ (last.op = "accept" /\ split # "no")
         => /\ ~HasErr(last.res, "NotListening")
            /\ (Len(last.pre) < N /\ last.arg = 1)
                 => /\ last.res.st = "Ok"
                    /\ last.addr \in Range(Receiver_peer_addrs(reg))
                    /\ Handed(last.addr) = <<>>
    /\ (last.op = "bsubmit" /\ last.res.st = "Ok")
         => \A b \in Live :
              /\ Len(Handed(b)) >= 2
              /\ SubSeq(Handed(b), Len(Handed(b)) - 1, Len(Handed(b))) = Encode(last.arg)
              /\ bout[b] \o bq[b] = Handed(b)
    /\ (last.op = "bflush" /\ last.res.st = "Ok")
         => \A b \in Live : bout[b] = Handed(b)

C14_Witness ==
    /\ last.op = "bflush"
    /\ last.res.st = "Ok"
    /\ Len(bsent) = 2
    /\ \E b, c \in Live :
         /\ bout[c] = EncodeAll(bsent)
         /\ join[b] = 1
         /\ bout[b] = Encode(bsent[2])

\* C15: a Receiver built with N = 0 is unbounded: limit() is None, and no
\* accept fails with CapacityExceeded however many entries there are: an
\* accept the filter passes admits the connection.
C15_Unbounded ==
    /\ ~Receiver_limit_for(0).some
    /\ Receiver_limit_for(N) = [some |-> TRUE, val |-> N]
    /\ last.op = "accept"
         => /\ ~HasErr(last.res, "CapacityExceeded")
            /\ last.arg = 1
                 => /\ last.res.st = "Ok"
                    /\ reg = Append(MC_remove(last.pre, last.addr), last.addr)

C15_Witness ==
    /\ last.op = "accept"
    /\ last.res.st = "Ok"
    /\ Len(last.pre) >= N
    /\ Receiver_len(reg) = NumPeers

\* A read that yields takes the first frame of the connection of the entry
\* it names, and of no other; that entry is in the registry before the read
\* and after it, and its connection is the one the entry was admitted with;
\* a raw-frame read yields those bytes, a decoding read what they decode to.
C16_Read ==
    (last'.op = "recv" /\ last'.res.poll = "Some") =>
        LET a == last'.res.addr IN
        /\ a \in Range(Receiver_peer_addrs(reg))
        /\ a \in Range(Receiver_peer_addrs(reg'))
        /\ a \notin Stale
        /\ HasFrame(wire[a])
        /\ last'.res.frame = FirstFrame(wire[a])
        /\ wire'[a] = DropFrame(wire[a])
        /\ \A b \in Addrs \ {a} : wire'[b] = wire[b] \/ b \in Range(reg) \ Range(reg')
        /\ got'[a] = Append(got[a], DecodeAll(<<FirstFrame(wire[a])>>)[1])
        /\ IF last'.arg \in {2, 3}
           THEN last'.res.item = NoItem
           ELSE last'.res.item = DecodeAll(<<FirstFrame(wire[a])>>)[1]

\* C16: every Addressed Item carries the address of the peer on whose
\* connection its frame arrived, a live entry of the registry when the item
\* was produced (C16_Read), and so the items attributed to a peer are, in
\* order, what that peer sent.
C16_AddressedItems ==
    /\ [][C16_Read]_vars
    /\ [](\A a \in Live : (a \notin Stale /\ conn[a] # "reset")
                            => Observed(a) = ExpectAll(subm[a]))

C16_Witness ==
    /\ last.op = "recv"
    /\ last.arg \in {1, 3}
    /\ last.res.poll = "Some"
    /\ Len(last.pre) = 2
    /\ last.res.addr = last.pre[2]
    /\ got[last.pre[1]] # <<>>
    /\ got[last.res.addr] # got[last.pre[1]]

\* What a critical section of either half does to an entry, it does to an
\* entry the registry holds: a write leaves it there, a read leaves it
\* there, an eviction finds it there with its connection ended and takes it
\* out; and only entries of the registry are written to or read from.
C17_Visit ==
    /\ \A a \in Addrs :
          (Len(bq'[a]) > Len(bq[a]) \/ Len(bout'[a]) > Len(bout[a]))
              => a \in Range(reg) /\ a \in Range(reg')
    /\ (last'.op \in {"recv", "rxstep", "txstep", "txflush"} /\ last'.done # <<>>) =>
          LET a == last'.addr IN
          /\ last'.done \in {<<"read">>, <<"write">>, <<"keep">>}
                => a \in Range(reg) /\ a \in Range(reg')
          /\ last'.done = <<"read">> => wire'[a] = DropFrame(EntryWire[a])
          /\ last'.done = <<"evict">>
                => a \in Range(reg) /\ a \notin Range(reg') /\ EntryConn[a] # "open"
          /\ last'.done = <<"skip">> => a \notin Range(reg) /\ UNCHANGED <<reg, wire, bq, bout, got>>
    /\ \A a \in Range(reg) \ Range(reg') : last'.done = <<"evict">> /\ last'.addr = a

\* C17: with the two halves of a split Multi-Channel driven concurrently,
\* a peer the read has evicted is not written to by the fan-out in progress
\* or a later one, a peer evicted by a write failure is not read, no entry
\* is evicted twice, and both halves see one set of live peers: the
\* broadcaster holds bytes for exactly such peers as the receive half lists.
C17_HalvesAgree ==
    /\ [][C17_Visit]_vars
    /\ [](\A a \in Addrs : a \notin Range(Receiver_peer_addrs(reg))
                              => bq[a] = <<>> /\ bout[a] = <<>>)
    /\ [](Receiver_len(reg) = Cardinality(Range(Receiver_peer_addrs(reg))))

\* the fan-out in progress comes to an entry the read has evicted meanwhile
C17_Witness ==
    /\ last.op = "txstep"
    /\ last.done = <<"skip">>
    /\ pass.txon
    /\ bq # [a \in Addrs |-> <<>>]

\* The entries of the registry whose flush fails: bytes queued, transport ended.
FlushFails == {a \in Range(reg) : bq[a] # <<>> /\ EntryConn[a] # "open"}

\* One poll of the broadcaster's flush: it evicts exactly the entries whose
\* flush fails, it never returns an error, every entry left has moved
\* bytes from its queue to its transport if it had any queued, and it
\* returns Ok exactly when no entry left has bytes queued.
C18_Poll ==
    last'.op = "bflush" =>
        /\ Range(reg') = Range(reg) \ FlushFails
        /\ last'.res \in {Ok, Pending}
        /\ last'.res = Ok <=> \A a \in Range(reg') : bq'[a] = <<>>
        /\ \A a \in Range(reg') :
              /\ bout'[a] \o bq'[a] = bout[a] \o bq[a]
              /\ bq[a] # <<>> => Len(bq'[a]) < Len(bq[a])

\* C18: the broadcaster's flush() reports success only with no bytes queued
\* for any live peer; a peer whose flush fails is evicted and the others
\* are flushed all the same (C18_Poll); and flush, polled again whenever
\* it is pending, completes: what is queued for a peer is eventually
\* queued no more, and a pending flush is followed by one that returns Ok.
C18_FlushCompletes ==
    /\ [][C18_Poll]_vars
    /\ \A a \in FaninPeers : (a \in Range(reg) /\ bq[a] # <<>>) ~> (bq[a] = <<>>)
    /\ (last.op = "bflush" /\ last.res = Pending)
          ~> (last.op = "bflush" /\ last.res = Ok)

\* a flush returns Ok having evicted a failing peer and delivered to another
C18_Witness ==
    /\ last.op = "bflush"
    /\ last.res = Ok
    /\ Len(last.pre) = 2
    /\ Len(reg) = 1
    /\ bout[reg[1]] # <<>>
    /\ bq[reg[1]] = <<>>

\* The bytes of connection a not yet read, in flight and queued, are the
\* whole frames of the submitted values not yet yielded, in order.
Framed(a) ==
    /\ Len(got[a]) <= Len(subm[a])
    /\ got[a] = ExpectAll(SubSeq(subm[a], 1, Len(got[a])))
    /\ wire[a] \o snd[a].queue
          = EncodeAll(SubSeq(subm[a], Len(got[a]) + 1, Len(subm[a])))

\* Dropping the pending send() touches neither the queue nor the wire; a
\* later poll_flush writes what the queue holds from its front, nothing
\* again and nothing skipped, and returns Ok exactly when the queue is empty.
C19_Resume ==
    /\ last'.op = "cancel" =>
          /\ snd'[last'.addr].queue = snd[last'.addr].queue
          /\ snd'[last'.addr].ready = snd[last'.addr].ready
          /\ wire' = wire
    /\ (last'.op = "poll_flush" /\ Up(last'.addr)) =>
          LET a == last'.addr IN
          /\ wire'[a] \o snd'[a].queue = wire[a] \o snd[a].queue
          /\ Len(snd'[a].queue) = Len(snd[a].queue) - Min(last'.arg, Len(snd[a].queue))
          /\ last'.res = Ok <=> snd'[a].queue = <<>>
          /\ last'.res \in {Ok, Pending}

\* C19: a pending send() or flush dropped at any suspension point leaves
\* whole frames: what is in flight and queued is the frames of the values
\* submitted and not yet yielded, in order; a later flush resumes where the
\* dropped one stopped, and the receiver is yielded each value once, in order.
C19_CancelSafe ==
    /\ [][C19_Resume]_vars
    /\ [](\A a \in Held : conn[a] \in {"open", "closed"} => Framed(a))

\* a flush completes the frame a dropped send() had written part of, after
\* an earlier value has been received
C19_Witness ==
    /\ last.op = "poll_flush"
    /\ last.res = Ok
    /\ cut[last.addr] # <<>>
    /\ last.pre.queue = cut[last.addr]
    /\ Len(subm[last.addr]) >= 2
    /\ Len(cut[last.addr]) < Len(Encode(subm[last.addr][Len(subm[last.addr])]))
    /\ got[last.addr] # <<>>
    /\ Framed(last.addr)

\* What the Multi-Channel's next, Receiver::poll_next and Receiver::recv
\* each return, and leave, when polled in the current state.
CoreNext == MC_poll_next(reg, EntryWire, EntryConn)
StreamView == Receiver_poll_next(reg, EntryWire, EntryConn)
RecvView == Receiver_recv(reg, EntryWire, EntryConn)

\* In every state the facade's poll is the core's: pending, a value, an
\* error item or the end exactly when the core's is, the same value from
\* the same peer, the core's error under the Receiver's context, the same
\* registry and bytes left behind; and recv() is the Stream view.
C20_SameView ==
    /\ StreamView.res.poll = CoreNext.res.poll
    /\ StreamView.reg = CoreNext.reg
    /\ StreamView.wire = CoreNext.wire
    /\ CoreNext.res.poll = "Some" =>
          /\ StreamView.res.addr = CoreNext.res.addr
          /\ StreamView.res.frame = CoreNext.res.frame
          /\ StreamView.res.item.st = CoreNext.res.item.st
          /\ CoreNext.res.item.st = "Ok" => StreamView.res.item = CoreNext.res.item
          /\ CoreNext.res.item.st = "Err" =>
                StreamView.res.item.err = <<"ReceiverError">> \o CoreNext.res.item.err
    /\ CoreNext.res.poll # "Some" => StreamView.res = CoreNext.res
    /\ RecvView = StreamView

\* Every poll taken, through recv() or the Stream, returns that view and
\* appends its item, if any, to what its peer has been yielded.
C20_Polled ==
    (last'.op = "recv") =>
        /\ last'.res = StreamView.res
        /\ reg' = CoreNext.reg
        /\ last'.res.poll = "Some" =>
              got'[last'.res.addr] = Append(got[last'.res.addr], StreamView.res.item)
        /\ \A a \in Range(reg') \ {last'.res.addr} : got'[a] = got[a]

\* C20: the Receiver is a transparent view of the Multi-Channel: each poll
\* of poll_next returns pending, Some(Ok(v)), Some(Err) or None exactly as
\* the Multi-Channel's next does, recv() returns the same, and the items
\* yielded through either are, per peer, what was sent, in order, none
\* dropped, repeated or turned from an error into a value.
C20_Transparent ==
    /\ []C20_SameView
    /\ [][C20_Polled]_vars
    /\ [](\A a \in Live : (a \notin Stale /\ conn[a] \in {"open", "closed"})
                            => Observed(a) = ExpectAll(subm[a]))

\* an error item has just been yielded and the next poll yields a value
C20_Witness ==
    /\ last.op = "recv"
    /\ last.res.poll = "Some"
    /\ last.res.item.st = "Err"
    /\ CoreNext.res.poll = "Some"
    /\ CoreNext.res.item.st = "Ok"
    /\ StreamView.res.item = ItemOk(CoreNext.res.item.val)

====
